---- MODULE Spec2Model ----
(***************************************************************************)
(* Model of src/casino_system.py: CasinoSystem replays the lines of an     *)
(* input file against an in-memory ledger (balances, deposit totals, SLOT  *)
(* wager totals, a queue of promotion scenarios, per-user campaigns) and   *)
(* writes the results of the balance queries to the output file.           *)
(*                                                                         *)
(* A line is modelled as the list of tokens transaction.split() yields; a  *)
(* token is a sequence of one-character strings, so that startswith, int() *)
(* and str() are computed on the characters as Python computes them.       *)
(***************************************************************************)
EXTENDS Integers, Sequences, FiniteSets, TLC

(***************************************************************************)
(* Bounds of the model.                                                    *)
(***************************************************************************)
\* number of lines of the input file that the loop consumes at most
MaxLines == 6
\* number of lines of the input file in the runs of two users (SpecTwo)
MaxLinesTwo == 8
\* number of lines of the input file in the runs of SpecEdge
MaxLinesEdge == 6

(***************************************************************************)
(* Text: keywords, game types, conversions.                                *)
(***************************************************************************)
kwRegister == <<"r","e","g","i","s","t","e","r">>
kwAddscenario == <<"a","d","d","s","c","e","n","a","r","i","o">>
kwDeposit == <<"d","e","p","o","s","i","t">>
kwBet == <<"b","e","t">>
kwBalance == <<"b","a","l","a","n","c","e">>

SLOT == <<"S","L","O","T">>
CASINO == <<"C","A","S","I","N","O">>
SPORT == <<"S","P","O","R","T">>

Digits == <<"0","1","2","3","4","5","6","7","8","9">>

DigitSet == {Digits[i] : i \in 1..10}

DigitVal(c) == (CHOOSE i \in 1..10 : Digits[i] = c) - 1

\* str.startswith on a stripped line: the line starts with its first token, and
\* no keyword holds white space, so the line starts with kw iff its first token does
StartsWith(line, kw) ==
    /\ Len(line) > 0
    /\ Len(line[1]) >= Len(kw)
    /\ SubSeq(line[1], 1, Len(kw)) = kw

\* the digits of a token after an optional sign
UnsignedPart(tok) ==
    IF Len(tok) > 0 /\ tok[1] \in {"-", "+"} THEN Tail(tok) ELSE tok

\* int(tok) returns a value (it raises ValueError otherwise)
IsIntToken(tok) ==
    /\ Len(UnsignedPart(tok)) > 0
    /\ \A i \in 1..Len(UnsignedPart(tok)) : UnsignedPart(tok)[i] \in DigitSet

RECURSIVE NatOf(_)
NatOf(ds) ==
    IF ds = <<>> THEN 0
    ELSE 10 * NatOf(SubSeq(ds, 1, Len(ds) - 1)) + DigitVal(ds[Len(ds)])

\* int(tok) for a token that parses
IntOf(tok) ==
    IF Len(tok) > 0 /\ tok[1] = "-" THEN 0 - NatOf(UnsignedPart(tok))
    ELSE NatOf(UnsignedPart(tok))

RECURSIVE NatToStr(_)
NatToStr(n) ==
    IF n < 10 THEN <<Digits[n + 1]>>
    ELSE NatToStr(n \div 10) \o <<Digits[(n % 10) + 1]>>

\* str(n) of an int
IntToStr(n) ==
    IF n < 0 THEN <<"-">> \o NatToStr(0 - n) ELSE NatToStr(n)

(***************************************************************************)
(* The lines an input file is made of.                                     *)
(***************************************************************************)
u1 == <<"u","1">>
u2 == <<"u","2">>
\* an id that no line registers
u9 == <<"u","9">>

T(n) == IntToStr(n)

RegisterLines ==
    { <<kwRegister, u>> : u \in {u1, u2} }
      \cup { <<kwRegister>>, <<kwRegister \o <<"e","d">>, u1>> }

ScenarioLines ==
    { <<kwAddscenario, T(10), T(20), T(30)>>,
      <<kwAddscenario, T(5), T(7), T(9)>>,
      <<kwAddscenario, T(10), T(20)>> }

DepositLines ==
    { <<kwDeposit, u, T(a)>> : u \in {u1, u2}, a \in {100, 1000} }
      \cup { <<kwDeposit, u9, T(100)>>, <<kwDeposit, u1, T(0)>>,
             <<kwDeposit, u1, <<"x">> >>, <<kwDeposit, u1>> }

BetLines ==
    { <<kwBet, u, g, T(a)>> : u \in {u1, u2}, g \in {SLOT, CASINO, SPORT}, a \in {50, 500} }
      \cup { <<kwBet, u9, SLOT, T(50)>>, <<kwBet, u1, SLOT, T(-50)>>,
             <<kwBet, u1, <<"P","O","K","E","R">>, T(50)>>,
             <<kwBet, u1, SLOT, <<"x">> >>, <<kwBet, u1, SLOT>>,
             <<kwBet \o <<"s">>, u1, SLOT, T(50)>> }

BalanceLines ==
    { <<kwBalance, u>> : u \in {u1, u2, u9} } \cup { <<kwBalance>> }

OtherLines == { <<>>, <<<<"q","u","i","t">>>> }

\* the lines of the runs in which two users each reach a campaign
TwoUserLines ==
    { <<kwRegister, u1>>, <<kwRegister, u2>>,
      <<kwAddscenario, T(10), T(20), T(30)>>, <<kwAddscenario, T(5), T(7), T(9)>>,
      <<kwDeposit, u1, T(1000)>>, <<kwDeposit, u2, T(100)>>,
      <<kwBet, u1, SLOT, T(500)>>, <<kwBet, u2, SLOT, T(50)>>,
      <<kwBalance, u2>>, <<>> }

\* the lines of the runs with amounts below the thresholds of tier 1 and with
\* scenarios whose first prize is negative or no integer
EdgeLines ==
    { <<kwRegister, u1>>, <<kwRegister, u2>>,
      <<kwAddscenario, T(10), T(20), T(30)>>,
      <<kwAddscenario, T(-200), T(20), T(30)>>,
      <<kwAddscenario, <<"x">>, T(20), T(30)>>,
      <<kwDeposit, u1, T(50)>>, <<kwDeposit, u1, T(100)>>, <<kwDeposit, u2, T(1000)>>,
      <<kwBet, u1, SLOT, T(10)>>, <<kwBet, u1, SLOT, T(50)>>,
      <<kwBet, u2, SLOT, T(500)>>, <<kwBet, u1, CASINO, T(50)>>,
      <<kwBalance, u1>>, <<>> }

AllLines ==
    RegisterLines \cup ScenarioLines \cup DepositLines \cup BetLines
      \cup BalanceLines \cup OtherLines

(***************************************************************************)
(* State.                                                                  *)
(***************************************************************************)
VARIABLES
    balances,          \* self.balances: user id -> balance
    outputs,           \* self.outputs: the output log
    win,               \* self.win: the outcome of the next resolved bet
    unused_scenarios,  \* self.unused_scenarios: queue of [prize1, prize2, prize3]
    deposits,          \* self.deposits: user id -> cumulative deposit
    slot_bets,         \* self.slot_bets: user id -> cumulative SLOT wager
    user_campaigns,    \* self.user_campaigns: user id -> [prize1, prize2, prize3, marker]
    pc,                \* make_transactions: "loop", "raised" or "returned"
    error,             \* the exception that ended the run, "none" while there is none
    transaction,       \* the line the loop took last
    consumed,          \* number of lines the loop has taken
    output_file,       \* the lines written to the output file, <<"absent">> before
    payouts,           \* history: the prizes added to a balance, in order
    loaded,            \* history: the scenarios appended by add_scenario, in order
    assigned,          \* history: the users given a campaign, in order
    resolved,          \* history: the outcomes of the bets won or lost, in order
    example_step       \* history: how many lines of ExampleRun the file began with
                       \* when it is those lines so far, -1 otherwise

vars == <<balances, outputs, win, unused_scenarios, deposits, slot_bets,
          user_campaigns, pc, error, transaction, consumed, output_file,
          payouts, loaded, assigned, resolved, example_step>>

\* the example run of the program's description
ExampleRun ==
    << <<kwRegister, u1>>, <<kwAddscenario, T(10), T(20), T(30)>>,
       <<kwDeposit, u1, T(100)>>, <<kwBet, u1, SLOT, T(50)>>, <<kwBalance, u1>> >>

Absent == <<"absent">>

\* dict(): no key
EmptyDict == [k \in {} |-> 0]

\* d[k] = v
Put(d, k, v) == [x \in DOMAIN d \cup {k} |-> IF x = k THEN v ELSE d[x]]

\* d.get(k, default)
Get(d, k, default) == IF k \in DOMAIN d THEN d[k] ELSE default

Init ==
    /\ balances = EmptyDict
    /\ outputs = <<>>
    /\ win = TRUE
    /\ unused_scenarios = <<>>
    /\ deposits = EmptyDict
    /\ slot_bets = EmptyDict
    /\ user_campaigns = EmptyDict
    /\ pc = "loop"
    /\ error = "none"
    /\ transaction = <<>>
    /\ consumed = 0
    /\ output_file = Absent
    /\ payouts = <<>>
    /\ loaded = <<>>
    /\ assigned = <<>>
    /\ resolved = <<>>
    /\ example_step = 0

(***************************************************************************)
(* The handlers, as functions from the object's fields to its fields. A    *)
(* handler that raises keeps the assignments it made before the raise; the *)
(* field error names the exception.                                        *)
(***************************************************************************)
Self ==
    [balances |-> balances, outputs |-> outputs, win |-> win,
     unused_scenarios |-> unused_scenarios, deposits |-> deposits,
     slot_bets |-> slot_bets, user_campaigns |-> user_campaigns,
     payouts |-> payouts, loaded |-> loaded, assigned |-> assigned,
     resolved |-> resolved, error |-> "none"]

Raise(self, kind) == [self EXCEPT !.error = kind]

\* self.balances[user_id] += int(prize); int() raises ValueError on a token
\* that is no integer, before the balance is touched
PayPrize(self, user_id, prize, tier) ==
    IF ~IsIntToken(prize) THEN Raise(self, "ValueError")
    ELSE [self EXCEPT
            !.balances = Put(@, user_id, @[user_id] + IntOf(prize)),
            !.payouts = Append(@, [user |-> user_id, tier |-> tier,
                                   amount |-> IntOf(prize)])]

\* mutant of MarkTier: campaign = campaign[1:] + [marker], the wrong end sliced
MarkTierDropFirst(campaign, marker) == Append(Tail(campaign), marker)

\* the list bound to campaign after the statement campaign[:-1].append(marker):
\* the slice campaign[:-1] is a new list, the marker is appended to that new
\* list, which is then dropped; campaign itself is not modified
MarkTier(campaign, marker) ==
    LET copy == Append(SubSeq(campaign, 1, Len(campaign) - 1), marker)
    IN  campaign

\* mutant of Tier1Met: or in place of and
Tier1MetEither(deposit, slot) == deposit >= 100 \/ slot >= 50

\* mutant of Tier1Met: > in place of >=
Tier1MetStrict(deposit, slot) == deposit > 100 /\ slot > 50

Tier1Met(deposit, slot) == deposit >= 100 /\ slot >= 50

Tier2Met(deposit, slot) == deposit >= 500 /\ slot >= 250

Tier3Met(deposit, slot) == deposit >= 1000 /\ slot >= 500

\* mutant of PopLeft: unused_scenarios[0], which leaves the element in the queue
PopLeftKeep(queue) == [item |-> Head(queue), rest |-> queue]

\* mutant of PopLeft: pop(), which takes the newest element
PopRight(queue) ==
    [item |-> queue[Len(queue)], rest |-> SubSeq(queue, 1, Len(queue) - 1)]

\* deque.popleft() of a non-empty queue: the element taken and the queue left
PopLeft(queue) == [item |-> Head(queue), rest |-> Tail(queue)]

\* mutant of AssignCampaign: an empty queue is passed over in silence
AssignCampaignIfAny(self, user_id) ==
    IF self.unused_scenarios = <<>> THEN self
    ELSE LET popped == PopLeft(self.unused_scenarios)
             available_campaign == Append(popped.item, <<"1">>)
             taken == [self EXCEPT
                            !.unused_scenarios = popped.rest,
                            !.user_campaigns = Put(@, user_id, available_campaign),
                            !.assigned = Append(@, user_id)]
         IN  PayPrize(taken, user_id, available_campaign[1], 1)

\* mutant of AssignCampaign: an if in place of the else of line 131, so that the
\* invocation that pays prize1 goes on to the checks of the later tiers
AssignCampaignFallThrough(self, user_id) ==
    IF self.unused_scenarios = <<>> THEN Raise(self, "IndexError")
    ELSE LET popped == PopLeft(self.unused_scenarios)
             available_campaign == Append(popped.item, <<"1">>)
             taken == [self EXCEPT
                            !.unused_scenarios = popped.rest,
                            !.user_campaigns = Put(@, user_id, available_campaign),
                            !.assigned = Append(@, user_id)]
             first == PayPrize(taken, user_id, available_campaign[1], 1)
         IN  IF first.error = "none"
                  /\ Tier2Met(self.deposits[user_id], self.slot_bets[user_id])
             THEN PayPrize(first, user_id, available_campaign[2], 2)
             ELSE first

\* mutant of AssignCampaign: available_campaign[1] in place of
\* available_campaign[0], which pays the second prize of the scenario first
AssignCampaignSecondPrize(self, user_id) ==
    IF self.unused_scenarios = <<>> THEN Raise(self, "IndexError")
    ELSE LET popped == PopLeft(self.unused_scenarios)
             available_campaign == Append(popped.item, <<"1">>)
             taken == [self EXCEPT
                            !.unused_scenarios = popped.rest,
                            !.user_campaigns = Put(@, user_id, available_campaign),
                            !.assigned = Append(@, user_id)]
         IN  PayPrize(taken, user_id, available_campaign[2], 2)

\* lines 127-130: take the oldest scenario, mark it tier 1, pay prize1
AssignCampaign(self, user_id) ==
    IF self.unused_scenarios = <<>> THEN Raise(self, "IndexError")
    ELSE LET popped == PopLeft(self.unused_scenarios)
             available_campaign == Append(popped.item, <<"1">>)
             taken == [self EXCEPT
                            !.unused_scenarios = popped.rest,
                            !.user_campaigns = Put(@, user_id, available_campaign),
                            !.assigned = Append(@, user_id)]
         IN  PayPrize(taken, user_id, available_campaign[1], 1)

\* lines 134-136 and 138-140: pay a later prize and store the campaign back
AdvanceCampaign(self, user_id, tier, marker) ==
    LET campaign == self.user_campaigns[user_id]
        paid == PayPrize(self, user_id, campaign[tier], tier)
    IN  IF paid.error # "none" THEN paid
        ELSE [paid EXCEPT
                !.user_campaigns = Put(@, user_id, MarkTier(campaign, marker))]

\* campaign[-1]
Last(campaign) == campaign[Len(campaign)]

CheckCampaignStatus(self, user_id) ==
    IF user_id \notin DOMAIN self.deposits \/ user_id \notin DOMAIN self.slot_bets
    THEN self
    ELSE LET deposit == self.deposits[user_id]
             slot == self.slot_bets[user_id]
         IN  IF user_id \notin DOMAIN self.user_campaigns
             THEN IF Tier1Met(deposit, slot) THEN AssignCampaign(self, user_id)
                  ELSE self
             ELSE IF Tier3Met(deposit, slot)
                       /\ Last(self.user_campaigns[user_id]) = <<"2">>
                  THEN AdvanceCampaign(self, user_id, 3, <<"3">>)
                  ELSE IF Tier2Met(deposit, slot)
                            /\ Last(self.user_campaigns[user_id]) = <<"1">>
                       THEN AdvanceCampaign(self, user_id, 2, <<"2">>)
                       ELSE self

\* mutant of make_registration: the check of lines 55-56 left out
make_registration_again(self, parts) ==
    IF Len(parts) # 2 THEN Raise(self, "ValueError: format")
    ELSE [self EXCEPT !.balances = Put(@, parts[2], 0)]

make_registration(self, parts) ==
    IF Len(parts) # 2 THEN Raise(self, "ValueError: format")
    ELSE LET user_id == parts[2]
         IN  IF user_id \in DOMAIN self.balances
             THEN Raise(self, "ValueError: exists")
             ELSE [self EXCEPT !.balances = Put(@, user_id, 0)]

add_scenario(self, parts) ==
    IF Len(parts) # 4 THEN Raise(self, "ValueError: format")
    ELSE LET scenario == <<parts[2], parts[3], parts[4]>>
         IN  [self EXCEPT !.unused_scenarios = Append(@, scenario),
                          !.loaded = Append(@, scenario)]

\* mutant of make_deposit: line 83 stores the amount in place of the sum
make_deposit_last_amount(self, parts) ==
    IF Len(parts) # 3 THEN Raise(self, "ValueError: format")
    ELSE LET user_id == parts[2]
         IN  IF ~IsIntToken(parts[3]) THEN Raise(self, "ValueError")
             ELSE LET amount == IntOf(parts[3])
                  IN  IF amount <= 0 THEN Raise(self, "ValueError: positive")
                      ELSE IF user_id \notin DOMAIN self.balances
                      THEN Raise(self, "ValueError: not registered")
                      ELSE CheckCampaignStatus(
                             [self EXCEPT
                                !.balances = Put(@, user_id, @[user_id] + amount),
                                !.deposits = Put(@, user_id, amount)],
                             user_id)

make_deposit(self, parts) ==
    IF Len(parts) # 3 THEN Raise(self, "ValueError: format")
    ELSE LET user_id == parts[2]
         IN  IF ~IsIntToken(parts[3]) THEN Raise(self, "ValueError")
             ELSE LET amount == IntOf(parts[3])
                  IN  IF amount <= 0 THEN Raise(self, "ValueError: positive")
                      ELSE IF user_id \notin DOMAIN self.balances
                      THEN Raise(self, "ValueError: not registered")
                      ELSE CheckCampaignStatus(
                             [self EXCEPT
                                !.balances = Put(@, user_id, @[user_id] + amount),
                                !.deposits = Put(@, user_id, Get(@, user_id, 0) + amount)],
                             user_id)

\* mutant of ResolveBet: the test of line 102 left out
ResolveBetUncovered(self, user_id, amount) ==
    [self EXCEPT
       !.balances = Put(@, user_id,
                        @[user_id] + (IF self.win THEN amount ELSE 0 - amount)),
       !.win = ~self.win,
       !.resolved = Append(@, self.win)]

\* mutant of ResolveBet: line 104 one indentation level out, so that every
\* valid bet flips the flag
ResolveBetAlwaysFlip(self, user_id, amount) ==
    IF amount <= self.balances[user_id]
    THEN [self EXCEPT
            !.balances = Put(@, user_id,
                             @[user_id] + (IF self.win THEN amount ELSE 0 - amount)),
            !.win = ~self.win,
            !.resolved = Append(@, self.win)]
    ELSE [self EXCEPT !.win = ~self.win]

\* lines 102-104: a bet the balance covers is won or lost, and flips the flag
ResolveBet(self, user_id, amount) ==
    IF amount <= self.balances[user_id]
    THEN [self EXCEPT
            !.balances = Put(@, user_id,
                             @[user_id] + (IF self.win THEN amount ELSE 0 - amount)),
            !.win = ~self.win,
            !.resolved = Append(@, self.win)]
    ELSE self

\* mutant of CountSlotBet: the test of line 106 left out
CountAnyBet(self, user_id, game, amount) ==
    CheckCampaignStatus(
      [self EXCEPT !.slot_bets = Put(@, user_id, Get(@, user_id, 0) + amount)],
      user_id)

\* lines 106-108: a SLOT bet counts towards the campaign
CountSlotBet(self, user_id, game, amount) ==
    IF game = SLOT
    THEN CheckCampaignStatus(
           [self EXCEPT !.slot_bets = Put(@, user_id, Get(@, user_id, 0) + amount)],
           user_id)
    ELSE self

\* mutant of make_bet: the check of the game type (lines 99-100) made after
\* the bet is resolved
make_bet_late_game_check(self, parts) ==
    IF Len(parts) # 4 THEN Raise(self, "ValueError: format")
    ELSE LET user_id == parts[2]
             game == parts[3]
         IN  IF ~IsIntToken(parts[4]) THEN Raise(self, "ValueError")
             ELSE LET amount == IntOf(parts[4])
                  IN  IF amount <= 0 THEN Raise(self, "ValueError: positive")
                      ELSE IF user_id \notin DOMAIN self.balances
                      THEN Raise(self, "ValueError: not registered")
                      ELSE IF game \notin {SLOT, CASINO, SPORT}
                      THEN Raise(ResolveBet(self, user_id, amount), "ValueError: game")
                      ELSE CountSlotBet(ResolveBet(self, user_id, amount),
                                        user_id, game, amount)

\* mutant of make_bet: lines 106-108 one indentation level in, so that only a
\* bet the balance covers counts as a SLOT wager
make_bet_count_if_covered(self, parts) ==
    IF Len(parts) # 4 THEN Raise(self, "ValueError: format")
    ELSE LET user_id == parts[2]
             game == parts[3]
         IN  IF ~IsIntToken(parts[4]) THEN Raise(self, "ValueError")
             ELSE LET amount == IntOf(parts[4])
                  IN  IF amount <= 0 THEN Raise(self, "ValueError: positive")
                      ELSE IF user_id \notin DOMAIN self.balances
                      THEN Raise(self, "ValueError: not registered")
                      ELSE IF game \notin {SLOT, CASINO, SPORT}
                      THEN Raise(self, "ValueError: game")
                      ELSE IF amount <= self.balances[user_id]
                      THEN CountSlotBet(ResolveBet(self, user_id, amount),
                                        user_id, game, amount)
                      ELSE self

make_bet(self, parts) ==
    IF Len(parts) # 4 THEN Raise(self, "ValueError: format")
    ELSE LET user_id == parts[2]
             game == parts[3]
         IN  IF ~IsIntToken(parts[4]) THEN Raise(self, "ValueError")
             ELSE LET amount == IntOf(parts[4])
                  IN  IF amount <= 0 THEN Raise(self, "ValueError: positive")
                      ELSE IF user_id \notin DOMAIN self.balances
                      THEN Raise(self, "ValueError: not registered")
                      ELSE IF game \notin {SLOT, CASINO, SPORT}
                      THEN Raise(self, "ValueError: game")
                      ELSE CountSlotBet(ResolveBet(self, user_id, amount),
                                        user_id, game, amount)

\* mutant of get_balance: the deposit total in place of the balance
get_balance_of_deposits(self, parts) ==
    IF Len(parts) # 2 THEN Raise(self, "ValueError: format")
    ELSE LET user_id == parts[2]
         IN  IF user_id \notin DOMAIN self.balances
             THEN Raise(self, "ValueError: not registered")
             ELSE [self EXCEPT
                     !.outputs = Append(@, IntToStr(Get(self.deposits, user_id, 0)))]

get_balance(self, parts) ==
    IF Len(parts) # 2 THEN Raise(self, "ValueError: format")
    ELSE LET user_id == parts[2]
         IN  IF user_id \notin DOMAIN self.balances
             THEN Raise(self, "ValueError: not registered")
             ELSE [self EXCEPT
                     !.outputs = Append(@, IntToStr(self.balances[user_id]))]

(***************************************************************************)
(* make_transactions: one action per branch of the loop body, and the end  *)
(* of the loop.                                                            *)
(***************************************************************************)
\* mutant of Took: the handler's exception is caught and dropped, and the loop
\* goes on to the next line
TookAndWentOn(line, after) ==
    /\ transaction' = line
    /\ consumed' = consumed + 1
    /\ balances' = after.balances
    /\ outputs' = after.outputs
    /\ win' = after.win
    /\ unused_scenarios' = after.unused_scenarios
    /\ deposits' = after.deposits
    /\ slot_bets' = after.slot_bets
    /\ user_campaigns' = after.user_campaigns
    /\ payouts' = after.payouts
    /\ loaded' = after.loaded
    /\ assigned' = after.assigned
    /\ resolved' = after.resolved
    /\ example_step' = IF /\ example_step >= 0
                          /\ example_step < Len(ExampleRun)
                          /\ line = ExampleRun[example_step + 1]
                       THEN example_step + 1
                       ELSE 0 - 1
    /\ error' = after.error
    /\ pc' = "loop"
    /\ UNCHANGED output_file

\* the loop took line and its handler left the object as after
Took(line, after) ==
    /\ transaction' = line
    /\ consumed' = consumed + 1
    /\ balances' = after.balances
    /\ outputs' = after.outputs
    /\ win' = after.win
    /\ unused_scenarios' = after.unused_scenarios
    /\ deposits' = after.deposits
    /\ slot_bets' = after.slot_bets
    /\ user_campaigns' = after.user_campaigns
    /\ payouts' = after.payouts
    /\ loaded' = after.loaded
    /\ assigned' = after.assigned
    /\ resolved' = after.resolved
    /\ example_step' = IF /\ example_step >= 0
                          /\ example_step < Len(ExampleRun)
                          /\ line = ExampleRun[example_step + 1]
                       THEN example_step + 1
                       ELSE 0 - 1
    /\ error' = after.error
    /\ pc' = IF after.error = "none" THEN "loop" ELSE "raised"
    /\ UNCHANGED output_file

\* the loop is about to take one more line of a file of at most max lines
MoreLines(max) == pc = "loop" /\ consumed < max

MakeRegistration(lines, max) ==
    /\ MoreLines(max)
    /\ \E line \in lines :
          /\ StartsWith(line, kwRegister)
          /\ Took(line, make_registration(Self, line))

AddScenario(lines, max) ==
    /\ MoreLines(max)
    /\ \E line \in lines :
          /\ ~StartsWith(line, kwRegister)
          /\ StartsWith(line, kwAddscenario)
          /\ Took(line, add_scenario(Self, line))

MakeDeposit(lines, max) ==
    /\ MoreLines(max)
    /\ \E line \in lines :
          /\ ~StartsWith(line, kwRegister)
          /\ ~StartsWith(line, kwAddscenario)
          /\ StartsWith(line, kwDeposit)
          /\ Took(line, make_deposit(Self, line))

MakeBet(lines, max) ==
    /\ MoreLines(max)
    /\ \E line \in lines :
          /\ ~StartsWith(line, kwRegister)
          /\ ~StartsWith(line, kwAddscenario)
          /\ ~StartsWith(line, kwDeposit)
          /\ StartsWith(line, kwBet)
          /\ Took(line, make_bet(Self, line))

GetBalance(lines, max) ==
    /\ MoreLines(max)
    /\ \E line \in lines :
          /\ ~StartsWith(line, kwRegister)
          /\ ~StartsWith(line, kwAddscenario)
          /\ ~StartsWith(line, kwDeposit)
          /\ ~StartsWith(line, kwBet)
          /\ StartsWith(line, kwBalance)
          /\ Took(line, get_balance(Self, line))

\* no branch of the if/elif chain matches: the line is skipped
SkipLine(lines, max) ==
    /\ MoreLines(max)
    /\ \E line \in lines :
          /\ ~StartsWith(line, kwRegister)
          /\ ~StartsWith(line, kwAddscenario)
          /\ ~StartsWith(line, kwDeposit)
          /\ ~StartsWith(line, kwBet)
          /\ ~StartsWith(line, kwBalance)
          /\ Took(line, Self)

\* get_file_content: the input file does not exist, found out when the loop
\* asks for the first line
InputNotFound ==
    /\ pc = "loop"
    /\ consumed = 0
    /\ pc' = "raised"
    /\ error' = "RuntimeError: not found"
    /\ UNCHANGED <<balances, outputs, win, unused_scenarios, deposits, slot_bets,
                   user_campaigns, transaction, consumed, output_file, payouts,
                   loaded, assigned, resolved, example_step>>

\* file.writelines(line + '\n' for line in self.outputs)
WrittenLines(log) == [i \in 1..Len(log) |-> log[i] \o <<"\n">>]

\* the input is exhausted: save_outputs writes the log, or open() fails
SaveOutputs ==
    /\ pc = "loop"
    /\ \/ /\ output_file' = WrittenLines(outputs)
          /\ pc' = "returned"
          /\ error' = "none"
       \/ /\ output_file' = output_file
          /\ pc' = "raised"
          /\ error' = "RuntimeError: write"
    /\ UNCHANGED <<balances, outputs, win, unused_scenarios, deposits, slot_bets,
                   user_campaigns, transaction, consumed, payouts, loaded,
                   assigned, resolved, example_step>>

Next ==
    \/ MakeRegistration(AllLines, MaxLines)
    \/ AddScenario(AllLines, MaxLines)
    \/ MakeDeposit(AllLines, MaxLines)
    \/ MakeBet(AllLines, MaxLines)
    \/ GetBalance(AllLines, MaxLines)
    \/ SkipLine(AllLines, MaxLines)
    \/ InputNotFound
    \/ SaveOutputs

Spec == Init /\ [][Next]_vars

NextTwo ==
    \/ MakeRegistration(TwoUserLines, MaxLinesTwo)
    \/ AddScenario(TwoUserLines, MaxLinesTwo)
    \/ MakeDeposit(TwoUserLines, MaxLinesTwo)
    \/ MakeBet(TwoUserLines, MaxLinesTwo)
    \/ GetBalance(TwoUserLines, MaxLinesTwo)
    \/ SkipLine(TwoUserLines, MaxLinesTwo)
    \/ InputNotFound
    \/ SaveOutputs

\* the same program on files of more lines, drawn from fewer different lines
SpecTwo == Init /\ [][NextTwo]_vars

NextEdge ==
    \/ MakeRegistration(EdgeLines, MaxLinesEdge)
    \/ AddScenario(EdgeLines, MaxLinesEdge)
    \/ MakeDeposit(EdgeLines, MaxLinesEdge)
    \/ MakeBet(EdgeLines, MaxLinesEdge)
    \/ GetBalance(EdgeLines, MaxLinesEdge)
    \/ SkipLine(EdgeLines, MaxLinesEdge)
    \/ InputNotFound
    \/ SaveOutputs

\* the same program on files with small amounts and with prizes that are
\* negative or no integers
SpecEdge == Init /\ [][NextEdge]_vars

(***************************************************************************)
(* Vocabulary of the properties.                                           *)
(***************************************************************************)
UserIds == {u1, u2, u9}

\* the tiers of the prizes paid to user so far, in order
RECURSIVE TiersPaid(_, _)
TiersPaid(log, user) ==
    IF log = <<>> THEN <<>>
    ELSE LET before == TiersPaid(SubSeq(log, 1, Len(log) - 1), user)
             entry == log[Len(log)]
         IN  IF entry.user = user THEN Append(before, entry.tier) ELSE before

\* how many times the prize of tier was paid to user
PaidCount(log, user, tier) ==
    Cardinality({i \in 1..Len(log) : log[i].user = user /\ log[i].tier = tier})

\* the tier marker of user: 0 without a campaign
TierOf(campaigns, user) ==
    IF user \in DOMAIN campaigns THEN IntOf(Last(campaigns[user])) ELSE 0

\* the step ran the evaluator for user: it is called right after, and only
\* after, a change of the user's deposit total or SLOT total
Evaluated(user) ==
    \/ Get(deposits', user, 0) # Get(deposits, user, 0)
    \/ Get(slot_bets', user, 0) # Get(slot_bets, user, 0)

\* user has both totals and they meet the thresholds of tier 3
AllThresholdsMet(deps, slots, user) ==
    /\ user \in DOMAIN deps
    /\ user \in DOMAIN slots
    /\ deps[user] >= 1000
    /\ slots[user] >= 500

(***************************************************************************)
(* C1: prize2 is added to a user's balance at most once over a run (the    *)
(* invocation that pays it moves the marker to 2, so no later one pays it).*)
(* Stated as the claim has it; the code violates it.                       *)
(***************************************************************************)
C1_Prize2AtMostOnce ==
    \A user \in UserIds : PaidCount(payouts, user, 2) <= 1

(***************************************************************************)
(* C2: a user who was paid prize1 and prize2 and for whom the evaluator    *)
(* runs once more with deposit >= 1000 and SLOT wager >= 500 has then been *)
(* paid prize1, prize2 and prize3 exactly once each, and is in tier 3.     *)
(* Stated as the claim has it; the code violates it.                       *)
(***************************************************************************)
C2_Prize3ThenTerminal ==
    [][\A user \in UserIds :
         ( /\ Evaluated(user)
           /\ error' = "none"
           /\ PaidCount(payouts, user, 1) >= 1
           /\ PaidCount(payouts, user, 2) >= 1
           /\ AllThresholdsMet(deposits', slot_bets', user) )
         => /\ TiersPaid(payouts', user) = <<1, 2, 3>>
            /\ TierOf(user_campaigns', user) = 3]_vars

(***************************************************************************)
(* C3: one step of the run (one deposit or one SLOT bet, hence one         *)
(* evaluator invocation) pays at most one prize, leaves each user's tier   *)
(* or raises it by one, and pays a user without a campaign prize1 only,    *)
(* also when the thresholds of the later tiers are met already.            *)
(***************************************************************************)
C3_OneTierPerInvocation ==
    [][/\ Len(payouts') <= Len(payouts) + 1
       /\ SubSeq(payouts', 1, Len(payouts)) = payouts
       /\ \A user \in UserIds :
             /\ TierOf(user_campaigns', user) \in
                   {TierOf(user_campaigns, user), TierOf(user_campaigns, user) + 1}
             /\ (user \notin DOMAIN user_campaigns /\ Len(payouts') > Len(payouts)
                   /\ payouts'[Len(payouts')].user = user)
                 => /\ payouts'[Len(payouts')].tier = 1
                    /\ TierOf(user_campaigns', user) = 1]_vars

\* the first evaluation of a user found the thresholds of every tier met, and
\* paid prize1 alone
C3_Witness ==
    \E user \in UserIds :
        /\ AllThresholdsMet(deposits, slot_bets, user)
        /\ Len(payouts) = 1
        /\ payouts[1].user = user
        /\ payouts[1].tier = 1
        /\ slot_bets[user] = 500
        /\ deposits[user] = 1000

(***************************************************************************)
(* C4: a payout of prize2 or prize3 to a user comes after a payout of      *)
(* prize1 to that user, of the first prize of the same scenario; a payout  *)
(* of prize3 comes after a payout of prize2 to that user.                  *)
(***************************************************************************)
C4_Prize1First ==
    \A i \in 1..Len(payouts) :
        /\ payouts[i].tier \in {2, 3} =>
              \E j \in 1..(i - 1) :
                  /\ payouts[j].user = payouts[i].user
                  /\ payouts[j].tier = 1
                  /\ payouts[j].amount = IntOf(user_campaigns[payouts[i].user][1])
                  /\ payouts[i].amount =
                        IntOf(user_campaigns[payouts[i].user][payouts[i].tier])
        /\ payouts[i].tier = 3 =>
              \E j \in 1..(i - 1) :
                  payouts[j].user = payouts[i].user /\ payouts[j].tier = 2

\* prize2 was paid
C4_Witness ==
    \E i \in 1..Len(payouts) : payouts[i].tier = 2

(***************************************************************************)
(* C5: scenarios are handed out in the order they were loaded: the k-th    *)
(* user to get a campaign holds the k-th scenario loaded, the queue holds  *)
(* the scenarios loaded after those, no user gets two, and every prize     *)
(* paid to a user is the prize of that tier of the user's own scenario.    *)
(***************************************************************************)
C5_FifoAssignment ==
    /\ Len(assigned) <= Len(loaded)
    /\ DOMAIN user_campaigns = {assigned[k] : k \in 1..Len(assigned)}
    /\ \A k \in 1..Len(assigned) :
          /\ SubSeq(user_campaigns[assigned[k]], 1, 3) = loaded[k]
          /\ \A m \in 1..Len(assigned) : assigned[m] = assigned[k] => m = k
    /\ unused_scenarios = SubSeq(loaded, Len(assigned) + 1, Len(loaded))
    /\ \A i \in 1..Len(payouts) :
          \E k \in 1..Len(assigned) :
              /\ assigned[k] = payouts[i].user
              /\ payouts[i].amount = IntOf(loaded[k][payouts[i].tier])

\* two users hold campaigns, of two different scenarios, and the one that got
\* its campaign first was registered last
C5_Witness ==
    /\ Len(assigned) = 2
    /\ loaded[1] # loaded[2]
    /\ assigned = <<u2, u1>>
    /\ Len(payouts) >= 2

(***************************************************************************)
(* C6: a user who has a campaign keeps it: no step changes its three       *)
(* prizes, and a step that takes a scenario off the queue gives it to a    *)
(* user who had no campaign.                                               *)
(***************************************************************************)
C6_CampaignKept ==
    [][/\ \A user \in DOMAIN user_campaigns :
             /\ user \in DOMAIN user_campaigns'
             /\ SubSeq(user_campaigns'[user], 1, 3) = SubSeq(user_campaigns[user], 1, 3)
       /\ unused_scenarios' # unused_scenarios =>
             \/ unused_scenarios' = Append(unused_scenarios, loaded'[Len(loaded')])
             \/ /\ unused_scenarios' = Tail(unused_scenarios)
                /\ \E user \in UserIds :
                      /\ user \notin DOMAIN user_campaigns
                      /\ DOMAIN user_campaigns' = DOMAIN user_campaigns \cup {user}
                      /\ SubSeq(user_campaigns'[user], 1, 3) = Head(unused_scenarios)]_vars

\* the evaluator paid a user who had a campaign, while a scenario was waiting
C6_Witness ==
    /\ unused_scenarios # <<>>
    /\ \E i \in 1..Len(payouts) : payouts[i].tier = 2

(***************************************************************************)
(* C7: the flag starts at win; a step flips it exactly when it is a valid  *)
(* bet whose amount is at most the bettor's balance before the step, of    *)
(* any game and user, and that bet is won if the flag was win and lost     *)
(* otherwise; so the n-th such bet of the run wins iff n is odd.           *)
(***************************************************************************)
\* the line is a bet that passes the checks of make_bet
ValidBet(line) ==
    /\ StartsWith(line, kwBet)
    /\ Len(line) = 4
    /\ IsIntToken(line[4])
    /\ IntOf(line[4]) > 0
    /\ line[2] \in DOMAIN balances
    /\ line[3] \in {SLOT, CASINO, SPORT}

\* the step took a line
TookLine == consumed' = consumed + 1

\* the sum of the prizes the step paid
PrizesOfStep ==
    IF Len(payouts') > Len(payouts) THEN payouts'[Len(payouts')].amount ELSE 0

C7_FlagAction ==
    /\ (win' # win) <=>
          (TookLine /\ ValidBet(transaction')
             /\ IntOf(transaction'[4]) <= balances[transaction'[2]])
    /\ (win' # win) =>
          /\ resolved' = Append(resolved, win)
          /\ balances'[transaction'[2]] =
                balances[transaction'[2]] + PrizesOfStep
                  + (IF win THEN IntOf(transaction'[4]) ELSE 0 - IntOf(transaction'[4]))
    /\ (win' = win) => resolved' = resolved

C7_AlternatingFlag ==
    /\ [](/\ win = (Len(resolved) % 2 = 0)
          /\ \A n \in 1..Len(resolved) : resolved[n] = (n % 2 = 1))
    /\ [][C7_FlagAction]_vars

\* two bets were resolved, one won and one lost, and a SLOT bet of 500 by a
\* user who had deposited 100 in all left the flag alone
C7_Witness ==
    /\ Len(resolved) = 2
    /\ win
    /\ error = "none"
    /\ \E user \in DOMAIN slot_bets :
          /\ slot_bets[user] = 500
          /\ user \in DOMAIN deposits
          /\ deposits[user] = 100

(***************************************************************************)
(* C8: a balance line for a registered user appends one entry to the       *)
(* output log, the text of the user's balance before the step, and changes *)
(* nothing else; no other step changes the log.                            *)
(***************************************************************************)
\* the line is a balance query that passes the checks of get_balance
ValidBalance(line) ==
    /\ StartsWith(line, kwBalance)
    /\ Len(line) = 2
    /\ line[2] \in DOMAIN balances

C8_BalanceQuery ==
    [][IF TookLine /\ ValidBalance(transaction')
       THEN /\ Len(outputs') = Len(outputs) + 1
            /\ SubSeq(outputs', 1, Len(outputs)) = outputs
            /\ IsIntToken(outputs'[Len(outputs')])
            /\ IntOf(outputs'[Len(outputs')]) = balances[transaction'[2]]
            /\ error' = "none"
            /\ UNCHANGED <<balances, win, unused_scenarios, deposits, slot_bets,
                           user_campaigns, payouts, output_file>>
       ELSE outputs' = outputs]_vars

\* the log holds two balances of one user, the older one no longer current
C8_Witness ==
    /\ DOMAIN balances = {u1}
    /\ Len(outputs) = 2
    /\ IntOf(outputs[1]) # balances[u1]
    /\ IntOf(outputs[2]) = balances[u1]
    /\ IntOf(outputs[2]) # Get(deposits, u1, 0)

(***************************************************************************)
(* C9: the file register u1; addscenario 10 20 30; deposit u1 100;         *)
(* bet u1 SLOT 50; balance u1 leaves the output log [160]: the bet is made *)
(* on a balance of 100, is won (150) and flips the flag to loss, the SLOT  *)
(* total is 50, the evaluator pays prize1 = 10 and the marker is 1.        *)
(***************************************************************************)
C9_ExampleOutput ==
    /\ example_step = 3 =>
          /\ balances = [user \in {u1} |-> 100]
          /\ deposits = [user \in {u1} |-> 100]
          /\ win
    /\ example_step \in {4, 5} =>
          /\ balances = [user \in {u1} |-> 160]
          /\ slot_bets = [user \in {u1} |-> 50]
          /\ ~win
          /\ resolved = <<TRUE>>
          /\ payouts = <<[user |-> u1, tier |-> 1, amount |-> 10]>>
          /\ TierOf(user_campaigns, u1) = 1
          /\ unused_scenarios = <<>>
          /\ error \in {"none", "RuntimeError: write"}
    /\ example_step = 4 => outputs = <<>>
    /\ example_step = 5 => outputs = << <<"1", "6", "0">> >>
    /\ (example_step = 5 /\ pc = "returned") =>
          output_file = << <<"1", "6", "0", "\n">> >>

\* the example file was read to its end and the log was written
C9_Witness ==
    /\ example_step = 5
    /\ pc = "returned"

(***************************************************************************)
(* C10: the output file is written only by a run that took every line      *)
(* without an exception, then holds the whole log in order, one entry a    *)
(* line; once a command has raised, or the file is written, the run takes  *)
(* no further step, so the file is written at most once and never after a  *)
(* failure.                                                                *)
(***************************************************************************)
C10_SinkWrittenOnce ==
    /\ [](output_file # Absent =>
            /\ pc = "returned"
            /\ error = "none"
            /\ Len(output_file) = Len(outputs)
            /\ \A i \in 1..Len(outputs) : output_file[i] = outputs[i] \o <<"\n">>)
    /\ [](error # "none" => output_file = Absent)
    /\ [][error = "none" /\ output_file = Absent]_vars

\* a run of two balance queries wrote its log of two different balances
C10_Witness ==
    /\ pc = "returned"
    /\ output_file # Absent
    /\ Len(output_file) = 2
    /\ output_file[1] # output_file[2]

(***************************************************************************)
(* C11: a register line for an id that has a balance raises the duplicate  *)
(* error and changes no field; for a new id it adds the balance 0 and      *)
(* changes no other field (no deposit total, SLOT total or campaign).      *)
(***************************************************************************)
\* every field of the object, the histories and the output file keep their values
NothingChanged ==
    UNCHANGED <<balances, outputs, win, unused_scenarios, deposits, slot_bets,
                user_campaigns, output_file, payouts, loaded, assigned, resolved>>

\* the line is dispatched to make_registration and has its two tokens
RegisterLine(line) ==
    /\ StartsWith(line, kwRegister)
    /\ Len(line) = 2

C11_Registration ==
    [][(TookLine /\ RegisterLine(transaction')) =>
         IF transaction'[2] \in DOMAIN balances
         THEN /\ error' = "ValueError: exists"
              /\ pc' = "raised"
              /\ NothingChanged
         ELSE /\ error' = "none"
              /\ DOMAIN balances' = DOMAIN balances \cup {transaction'[2]}
              /\ balances'[transaction'[2]] = 0
              /\ \A user \in DOMAIN balances : balances'[user] = balances[user]
              /\ UNCHANGED <<outputs, win, unused_scenarios, deposits, slot_bets,
                             user_campaigns, output_file, payouts, loaded,
                             assigned, resolved>>]_vars

\* a second register line of a user with money failed
C11_Witness ==
    /\ error = "ValueError: exists"
    /\ RegisterLine(transaction)
    /\ balances[transaction[2]] > 0

(***************************************************************************)
(* C12: a deposit, bet or balance line that names an id without a balance, *)
(* a deposit or bet line with an amount <= 0, and a bet line with a game   *)
(* other than SLOT, CASINO, SPORT raise and change no field.               *)
(***************************************************************************)
Rejected(line) ==
    \/ /\ StartsWith(line, kwDeposit)
       /\ Len(line) = 3
       /\ IsIntToken(line[3])
       /\ (line[2] \notin DOMAIN balances \/ IntOf(line[3]) <= 0)
    \/ /\ StartsWith(line, kwBet)
       /\ Len(line) = 4
       /\ IsIntToken(line[4])
       /\ \/ line[2] \notin DOMAIN balances
          \/ IntOf(line[4]) <= 0
          \/ line[3] \notin {SLOT, CASINO, SPORT}
    \/ /\ StartsWith(line, kwBalance)
       /\ Len(line) = 2
       /\ line[2] \notin DOMAIN balances

C12_RejectedUnchanged ==
    [][(TookLine /\ Rejected(transaction')) =>
         /\ error' # "none"
         /\ pc' = "raised"
         /\ NothingChanged]_vars

\* a bet on an unknown game was rejected though the balance covered it
C12_Witness ==
    /\ error = "ValueError: game"
    /\ balances[transaction[2]] >= IntOf(transaction[4])

(***************************************************************************)
(* C13: a valid bet on CASINO or SPORT changes at most the bettor's        *)
(* balance and the flag (no total, queue, campaign, payout or log entry),  *)
(* and nothing at all when its amount exceeds the bettor's balance.        *)
(***************************************************************************)
C13_OtherGames ==
    [][(TookLine /\ ValidBet(transaction') /\ transaction'[3] \in {CASINO, SPORT}) =>
         /\ error' = "none"
         /\ UNCHANGED <<outputs, unused_scenarios, deposits, slot_bets,
                        user_campaigns, output_file, payouts, loaded, assigned>>
         /\ DOMAIN balances' = DOMAIN balances
         /\ \A user \in DOMAIN balances \ {transaction'[2]} :
               balances'[user] = balances[user]
         /\ IntOf(transaction'[4]) > balances[transaction'[2]] =>
               UNCHANGED <<balances, win, resolved>>]_vars

\* a CASINO or SPORT bet of 500 by a user who deposited 100 went through
C13_Witness ==
    /\ error = "none"
    /\ ValidBet(transaction)
    /\ transaction[3] \in {CASINO, SPORT}
    /\ transaction[4] = T(500)
    /\ transaction[2] \in DOMAIN deposits
    /\ deposits[transaction[2]] = 100
    /\ balances[transaction[2]] < 500

(***************************************************************************)
(* C14: a valid SLOT bet whose amount exceeds the bettor's balance is      *)
(* neither won nor lost and leaves the flag, yet adds its amount to the    *)
(* bettor's SLOT total and runs the evaluator, which pays prize1 when the  *)
(* bet makes the user eligible and a scenario is waiting.                  *)
(***************************************************************************)
C14_UncoveredSlotBet ==
    [][(TookLine /\ ValidBet(transaction') /\ transaction'[3] = SLOT
          /\ IntOf(transaction'[4]) > balances[transaction'[2]]) =>
         LET user == transaction'[2]
             amount == IntOf(transaction'[4])
         IN  /\ UNCHANGED <<win, resolved, deposits, outputs>>
             /\ slot_bets' = Put(slot_bets, user, Get(slot_bets, user, 0) + amount)
             /\ balances' = Put(balances, user, balances[user] + PrizesOfStep)
             /\ ( /\ user \in DOMAIN deposits
                  /\ user \notin DOMAIN user_campaigns
                  /\ deposits[user] >= 100
                  /\ Get(slot_bets, user, 0) + amount >= 50
                  /\ unused_scenarios # <<>> )
                 => /\ Len(payouts') = Len(payouts) + 1
                    /\ payouts'[Len(payouts')].user = user
                    /\ payouts'[Len(payouts')].tier = 1
                    /\ PrizesOfStep = IntOf(Head(unused_scenarios)[1])]_vars

\* the only bet of the run, a SLOT bet of 500 on a balance of 100, was not
\* resolved and brought the user prize1
C14_Witness ==
    /\ resolved = <<>>
    /\ Len(payouts) = 1
    /\ payouts[1].tier = 1
    /\ slot_bets[payouts[1].user] = 500
    /\ deposits[payouts[1].user] = 100
    /\ balances[payouts[1].user] = 100 + payouts[1].amount

(***************************************************************************)
(* C15: when a deposit or SLOT bet makes a user without a campaign         *)
(* eligible for tier 1 while the queue is empty, the run fails: the user   *)
(* gets no campaign and no prize, and the deposit or bet stays applied to  *)
(* the balance, the totals and the flag.                                   *)
(***************************************************************************)
\* the line is a deposit that passes the checks of make_deposit
ValidDeposit(line) ==
    /\ StartsWith(line, kwDeposit)
    /\ Len(line) = 3
    /\ IsIntToken(line[3])
    /\ IntOf(line[3]) > 0
    /\ line[2] \in DOMAIN balances

\* the balance of user after a bet of amount is resolved, or left alone
AfterBet(user, amount) ==
    IF amount <= balances[user]
    THEN balances[user] + (IF win THEN amount ELSE 0 - amount)
    ELSE balances[user]

C15_EmptyQueue ==
    [][(TookLine /\ unused_scenarios = <<>>) =>
         /\ ( /\ ValidDeposit(transaction')
              /\ transaction'[2] \notin DOMAIN user_campaigns
              /\ transaction'[2] \in DOMAIN slot_bets
              /\ Get(deposits, transaction'[2], 0) + IntOf(transaction'[3]) >= 100
              /\ slot_bets[transaction'[2]] >= 50 )
            => /\ error' = "IndexError"
               /\ pc' = "raised"
               /\ UNCHANGED <<user_campaigns, payouts, assigned, unused_scenarios,
                              outputs, win, slot_bets, output_file>>
               /\ balances' = Put(balances, transaction'[2],
                                  balances[transaction'[2]] + IntOf(transaction'[3]))
               /\ deposits' = Put(deposits, transaction'[2],
                                  Get(deposits, transaction'[2], 0) + IntOf(transaction'[3]))
         /\ ( /\ ValidBet(transaction')
              /\ transaction'[3] = SLOT
              /\ transaction'[2] \notin DOMAIN user_campaigns
              /\ transaction'[2] \in DOMAIN deposits
              /\ deposits[transaction'[2]] >= 100
              /\ Get(slot_bets, transaction'[2], 0) + IntOf(transaction'[4]) >= 50 )
            => /\ error' = "IndexError"
               /\ pc' = "raised"
               /\ UNCHANGED <<user_campaigns, payouts, assigned, unused_scenarios,
                              outputs, deposits, output_file>>
               /\ balances' = Put(balances, transaction'[2],
                                  AfterBet(transaction'[2], IntOf(transaction'[4])))
               /\ win' = IF IntOf(transaction'[4]) <= balances[transaction'[2]]
                         THEN ~win ELSE win
               /\ slot_bets' = Put(slot_bets, transaction'[2],
                                   Get(slot_bets, transaction'[2], 0)
                                     + IntOf(transaction'[4]))]_vars

\* the run failed on the empty queue in a SLOT bet that was won before
C15_Witness ==
    /\ error = "IndexError"
    /\ ValidBet(transaction)
    /\ resolved = <<TRUE>>
    /\ ~win
    /\ user_campaigns = EmptyDict
    /\ balances[transaction[2]] = 100 + IntOf(transaction[4])

(***************************************************************************)
(* C16: a valid deposit of a raises the user's deposit total by a and the  *)
(* balance by a plus the prize of the step, a valid SLOT bet of a raises   *)
(* the user's SLOT total by a, no other step changes a total, and no total *)
(* ever decreases or disappears.                                           *)
(***************************************************************************)
\* no entry of the dict before is missing or smaller in the dict after
Grown(before, after) ==
    \A user \in DOMAIN before : user \in DOMAIN after /\ after[user] >= before[user]

C16_Totals ==
    [][/\ Grown(deposits, deposits')
       /\ Grown(slot_bets, slot_bets')
       /\ IF TookLine /\ ValidDeposit(transaction')
          THEN /\ deposits' = Put(deposits, transaction'[2],
                                  Get(deposits, transaction'[2], 0)
                                    + IntOf(transaction'[3]))
               /\ balances' = Put(balances, transaction'[2],
                                  balances[transaction'[2]] + IntOf(transaction'[3])
                                    + PrizesOfStep)
               /\ slot_bets' = slot_bets
          ELSE IF TookLine /\ ValidBet(transaction') /\ transaction'[3] = SLOT
          THEN /\ slot_bets' = Put(slot_bets, transaction'[2],
                                   Get(slot_bets, transaction'[2], 0)
                                     + IntOf(transaction'[4]))
               /\ deposits' = deposits
          ELSE deposits' = deposits /\ slot_bets' = slot_bets]_vars

\* a user made two deposits and two SLOT bets
C16_Witness ==
    \E user \in DOMAIN deposits :
        /\ deposits[user] = 1100
        /\ user \in DOMAIN slot_bets
        /\ slot_bets[user] = 550

(***************************************************************************)
(* C17: a line whose first token is none of register, addscenario,         *)
(* deposit, bet, balance (a token that only begins with one, or no token   *)
(* at all) is skipped: no field changes and nothing is raised.             *)
(* Stated as the claim has it; the code violates it.                       *)
(***************************************************************************)
Keywords == {kwRegister, kwAddscenario, kwDeposit, kwBet, kwBalance}

C17_UnknownFirstTokenSkipped ==
    [][(TookLine /\ (Len(transaction') = 0 \/ transaction'[1] \notin Keywords)) =>
         /\ error' = "none"
         /\ NothingChanged]_vars

(***************************************************************************)
(* C18: while every prize of every scenario loaded is an integer >= 0, no  *)
(* balance is negative.                                                    *)
(***************************************************************************)
C18_NonNegativeBalances ==
    (\A i \in 1..Len(loaded) : \A k \in 1..3 :
         IsIntToken(loaded[i][k]) /\ IntOf(loaded[i][k]) >= 0)
    => \A user \in DOMAIN balances : balances[user] >= 0

\* with prizes >= 0 a bet was lost, a prize was paid, and a later bet of more
\* than the balance was left unresolved while the flag stood at loss
C18_Witness ==
    /\ Len(loaded) >= 1
    /\ \A i \in 1..Len(loaded) : \A k \in 1..3 :
          IsIntToken(loaded[i][k]) /\ IntOf(loaded[i][k]) >= 0
    /\ Len(resolved) = 1
    /\ ~win
    /\ Len(payouts) >= 1
    /\ ValidBet(transaction)
    /\ IntOf(transaction[4]) > balances[transaction[2]]

(***************************************************************************)
(* C19: the scenarios in the queue and the scenarios held in campaigns are *)
(* together the scenarios loaded, each once: their numbers add up to the   *)
(* number of addscenario lines processed.                                  *)
(***************************************************************************)
C19_ScenariosConserved ==
    /\ Len(unused_scenarios) + Cardinality(DOMAIN user_campaigns) = Len(loaded)
    /\ Len(assigned) = Cardinality(DOMAIN user_campaigns)
    /\ loaded = [k \in 1..Len(assigned) |->
                    SubSeq(user_campaigns[assigned[k]], 1, 3)] \o unused_scenarios

\* a scenario went to a user though its first prize is no integer and the
\* payout failed, and another scenario waits in the queue
C19_Witness ==
    /\ error = "ValueError"
    /\ Cardinality(DOMAIN user_campaigns) = 1
    /\ payouts = <<>>
    /\ Len(unused_scenarios) >= 1

(***************************************************************************)
(* C20: a user who has a campaign has a balance, a deposit total >= 100    *)
(* and a SLOT total >= 50; a user without a deposit total or without a     *)
(* SLOT total has no campaign and was paid no prize.                       *)
(***************************************************************************)
C20_CampaignImpliesTotals ==
    /\ \A user \in DOMAIN user_campaigns :
          /\ user \in DOMAIN balances
          /\ user \in DOMAIN deposits
          /\ deposits[user] >= 100
          /\ user \in DOMAIN slot_bets
          /\ slot_bets[user] >= 50
    /\ \A user \in UserIds :
          (user \notin DOMAIN deposits \/ user \notin DOMAIN slot_bets) =>
              /\ user \notin DOMAIN user_campaigns
              /\ \A i \in 1..Len(payouts) : payouts[i].user # user

\* one user holds a campaign with totals of exactly 100 and 50, another has
\* deposited 1000, placed no SLOT bet and holds none
C20_Witness ==
    /\ DOMAIN user_campaigns = {u1}
    /\ deposits[u1] = 100
    /\ slot_bets[u1] = 50
    /\ u2 \in DOMAIN deposits
    /\ u2 \notin DOMAIN slot_bets
    /\ deposits[u2] = 1000
    /\ error = "none"
    /\ Len(payouts) = 1

====
